---- MODULE Spec2Model ----
(***************************************************************************)
(* A model of PyGeM's Free Form Deformation (pygem/ffd.py, FFD.perform)    *)
(* and of its volume-constrained variant (pygem/vffd.py, VFFD.__call__).   *)
(*                                                                         *)
(* Real numbers are exact rationals <<n, d>> (d > 0, lowest terms); the    *)
(* IEEE values that a division by zero produces are <<0, 0>> (nan) and     *)
(* <<1, 0>>, <<-1, 0>> (inf, -inf).  Rounding is not modelled: "within     *)
(* tolerance" in a claim is exact equality here.                           *)
(***************************************************************************)
EXTENDS Integers, Sequences, FiniteSets

\* ------------------------------------------------------------------ bounds

\* controlled indices are drawn from 0 .. NIdx-1
NIdx == 4
\* the caller's vweight components are integers in -MaxW .. MaxW
MaxW == 2
\* the caller's fixval is an integer in 0 .. MaxVol (the mesh starts at volume 1)
MaxVol == 2
\* successive VFFD.__call__ invocations on the same object
MaxCalls == 2
\* control points per lattice axis: 1 .. MaxDim
MaxDim == 2
\* points in the mesh handed to FFD.perform: 0 .. MaxPts
MaxPts == 2

\* ------------------------------------------------------- exact arithmetic

Abs(x) == IF x < 0 THEN -x ELSE x

RECURSIVE GCD(_, _)
GCD(a, b) == IF b = 0 THEN a ELSE GCD(b, a % b)

NaN == <<0, 0>>

IsFinite(a) == a[2] # 0

\* n/d in lowest terms with a positive denominator; d = 0 gives nan or +-inf
Rat(n, d) ==
    IF d = 0 THEN (IF n = 0 THEN NaN ELSE IF n > 0 THEN <<1, 0>> ELSE <<-1, 0>>)
    ELSE LET g == GCD(Abs(n), Abs(d))
             s == IF d < 0 THEN -1 ELSE 1
         IN  <<(s * n) \div g, (s * d) \div g>>

R(n) == <<n, 1>>

Zero == R(0)

One == R(1)

\* float addition; a non-finite operand gives nan (only nan arises in this model)
RAdd(a, b) ==
    IF IsFinite(a) /\ IsFinite(b) THEN Rat(a[1] * b[2] + b[1] * a[2], a[2] * b[2]) ELSE NaN

RNeg(a) == <<-a[1], a[2]>>

RSub(a, b) == RAdd(a, RNeg(b))

RMul(a, b) ==
    IF IsFinite(a) /\ IsFinite(b) THEN Rat(a[1] * b[1], a[2] * b[2]) ELSE NaN

\* float division: 0/0 is nan, x/0 is +-inf (numpy warns, it does not raise)
RDiv(a, b) ==
    IF IsFinite(a) /\ IsFinite(b) THEN Rat(a[1] * b[2], a[2] * b[1]) ELSE NaN

RAbs(a) == <<Abs(a[1]), a[2]>>

\* a < b; every comparison with nan is false
RLt(a, b) == IsFinite(a) /\ IsFinite(b) /\ a[1] * b[2] < b[1] * a[2]

RECURSIVE RPow(_, _)
RPow(a, n) == IF n = 0 THEN One ELSE RMul(a, RPow(a, n - 1))

\* f[0] + ... + f[n-1]
RECURSIVE RSum(_, _)
RSum(f, n) == IF n = 0 THEN Zero ELSE RAdd(RSum(f, n - 1), f[n - 1])

\* ------------------------------------------------------------------ state

VARIABLES
    \* VFFD object (pygem/vffd.py)
    vweight,        \* self.vweight: 3 reals
    indices,        \* self.indices: the controlled indices, in the caller's order
    M,              \* self.M: the weight matrix, [kind, n] (n x n)
    fixval,         \* self.fixval: the target of the constraint
    vol,            \* self.fun(self.ffd(src_pts)) under the current displacement arrays
    \* VFFD.__call__ frame
    pc,             \* position in __call__
    indices_bak,    \* line 76
    indexes,        \* line 81
    diffvolume,     \* line 82
    i,              \* loop variable of line 83
    tmp,            \* line 89
    ret,            \* what __call__ returned
    \* history of the running __call__
    entry,          \* the object's fields when __call__ was entered
    calls,          \* the invocations of super().__call__ so far, in order
    ncalls,         \* __call__ invocations started
    \* FFD object (pygem/ffd.py)
    parameters,            \* self.parameters
    original_mesh_points,  \* self.original_mesh_points
    reference_frame_mesh_points,  \* perform's local of line 44
    shift_mesh_points,     \* perform's local of line 42, as it is at line 80
    result                 \* what perform() gave: nothing yet, an error, or points

vffdVars == <<vweight, indices, M, fixval, vol, pc, indices_bak, indexes,
              diffvolume, i, tmp, ret, entry, calls, ncalls>>

ffdVars == <<parameters, original_mesh_points, reference_frame_mesh_points,
            shift_mesh_points, result>>

vars == <<vffdVars, ffdVars>>

None == [kind |-> "none"]

\* ------------------------------------------------------------------- VFFD

\* the elements of the set S as a sequence, ascending
RECURSIVE Asc(_)
Asc(S) ==
    IF S = {} THEN <<>>
    ELSE LET m == CHOOSE x \in S : \A y \in S : x <= y
         IN  <<m>> \o Asc(S \ {m})

Reverse(s) == [k \in 1..Len(s) |-> s[Len(s) + 1 - k]]

\* the index lists a caller may set: any subset of 0..NIdx-1, ascending or descending
IndexLists ==
    {Asc(S) : S \in SUBSET (0..(NIdx - 1))} \cup {Reverse(Asc(S)) : S \in SUBSET (0..(NIdx - 1))}

\* VFFD.__init__, line 65
DefaultVweight == <<Rat(1, 3), Rat(1, 3), Rat(1, 3)>>

\* the vweight a caller may set
VweightChoices ==
    {DefaultVweight} \cup
    {<<R(a), R(b), R(c)>> : a \in (-MaxW)..MaxW, b \in (-MaxW)..MaxW, c \in (-MaxW)..MaxW}

\* np.eye(n)
Eye(n) == [kind |-> "eye", n |-> n]

\* mutant of Normalize: the sum is taken but the division is forgotten
NormalizeNoDivide(w) == [k \in 1..3 |-> RAbs(w[k])]

\* mutant of Normalize: the absolute values are forgotten
NormalizeSigned(w) ==
    LET s == RAdd(RAdd(w[1], w[2]), w[3])
    IN  [k \in 1..3 |-> RDiv(w[k], s)]

\* line 75: np.abs(w) / np.sum(np.abs(w))
Normalize(w) ==
    LET s == RAdd(RAdd(RAbs(w[1]), RAbs(w[2])), RAbs(w[3]))
    IN  [k \in 1..3 |-> RDiv(RAbs(w[k]), s)]

\* mutant of Group: the group is rebuilt from a set, which loses the caller's order
GroupSorted(ind, r) == Asc({ind[k] : k \in {j \in DOMAIN ind : ind[j] % 3 = r}})

\* lines 78-80: self.indices[self.indices % 3 == r].tolist()
Group(ind, r) == SelectSeq(ind, LAMBDA x : x % 3 = r)

\* lines 86-87: self.fun(self.ffd(src_pts)) + self.vweight[i] * (diffvolume)
LocalTarget(v, w, d) == RAdd(v, RMul(w, d))

\* CFFD.__call__ (pygem/cffd.py), as far as the volume goes: the displacement
\* arrays are moved so that the constraint reaches the target exactly when there
\* is an index to move, and stay as they are when there is none
Corrector(ind, target, v) == IF Len(ind) = 0 THEN v ELSE target

\* what is known of one invocation of super().__call__
CallRecord(raised) ==
    [indices |-> indices, M |-> M, fixval |-> fixval, volBefore |-> vol,
     axis |-> i, raised |-> raised]

InitFFDIdle ==
    /\ parameters = None
    /\ original_mesh_points = <<>>
    /\ reference_frame_mesh_points = <<>>
    /\ shift_mesh_points = <<>>
    /\ result = None

InitVFFD ==
    /\ vweight \in VweightChoices
    /\ indices \in IndexLists
    /\ M = [kind |-> "caller", n |-> Len(indices)]
    /\ fixval \in {R(v) : v \in 0..MaxVol}
    /\ vol = One
    /\ pc = "idle"
    /\ indices_bak = <<>>
    /\ indexes = <<>>
    /\ diffvolume = Zero
    /\ i = 0
    /\ tmp = None
    /\ ret = None
    /\ entry = None
    /\ calls = <<>>
    /\ ncalls = 0

Init == InitVFFD /\ InitFFDIdle

\* lines 74-82: __call__ is entered: for the first time, again after a return,
\* or again after the caller caught the exception of an earlier call
Enter ==
    /\ pc \in {"idle", "returned", "raised"}
    /\ ncalls < MaxCalls
    /\ vweight' = Normalize(vweight)
    /\ indices_bak' = indices
    /\ indexes' = <<Group(indices, 0), Group(indices, 1), Group(indices, 2)>>
    /\ diffvolume' = RSub(fixval, vol)
    /\ i' = 0
    /\ tmp' = None
    /\ ret' = None
    /\ entry' = [kind |-> "entry", indices |-> indices, M |-> M, fixval |-> fixval,
                 vol |-> vol, vweight |-> vweight]
    /\ calls' = <<>>
    /\ ncalls' = ncalls + 1
    /\ pc' = "loop"
    /\ UNCHANGED <<indices, M, fixval, vol, ffdVars>>

\* mutant of PassSetup: the share is taken of the deficit that remains
PassSetupRemainingDeficit ==
    /\ pc = "loop"
    /\ i < 3
    /\ indices' = indexes[i + 1]
    /\ M' = Eye(Len(indexes[i + 1]))
    /\ fixval' = LocalTarget(vol, vweight[i + 1], RSub(entry.fixval, vol))
    /\ pc' = "correct"
    /\ UNCHANGED <<vweight, vol, indices_bak, indexes, diffvolume, i, tmp, ret,
                   entry, calls, ncalls, ffdVars>>

\* lines 83-87: the head of pass i
PassSetup ==
    /\ pc = "loop"
    /\ i < 3
    /\ indices' = indexes[i + 1]
    /\ M' = Eye(Len(indexes[i + 1]))
    /\ fixval' = LocalTarget(vol, vweight[i + 1], diffvolume)
    /\ pc' = "correct"
    /\ UNCHANGED <<vweight, vol, indices_bak, indexes, diffvolume, i, tmp, ret,
                   entry, calls, ncalls, ffdVars>>

\* line 88: super().__call__ returns; its points are dropped
PassCorrect ==
    /\ pc = "correct"
    /\ vol' = Corrector(indices, fixval, vol)
    /\ calls' = Append(calls, CallRecord(FALSE))
    /\ i' = i + 1
    /\ pc' = "loop"
    /\ UNCHANGED <<vweight, indices, M, fixval, indices_bak, indexes, diffvolume,
                   tmp, ret, entry, ncalls, ffdVars>>

\* mutant of PassCorrectRaises: a try/finally restores the indices
PassCorrectRaisesCleanup ==
    /\ pc = "correct"
    /\ calls' = Append(calls, CallRecord(TRUE))
    /\ indices' = indices_bak
    /\ pc' = "raised"
    /\ UNCHANGED <<vweight, M, fixval, vol, indices_bak, indexes,
                   diffvolume, i, tmp, ret, entry, ncalls, ffdVars>>

\* line 88: super().__call__ raises; nothing in __call__ catches it
PassCorrectRaises ==
    /\ pc = "correct"
    /\ calls' = Append(calls, CallRecord(TRUE))
    /\ pc' = "raised"
    /\ UNCHANGED <<vweight, indices, M, fixval, vol, indices_bak, indexes,
                   diffvolume, i, tmp, ret, entry, ncalls, ffdVars>>

\* mutant of FinalCorrect: lines 89 and 90 swapped, the indices are restored first
FinalCorrectRestoredFirst ==
    /\ pc = "loop"
    /\ i = 3
    /\ indices' = indices_bak
    /\ vol' = Corrector(indices', fixval, vol)
    /\ calls' = Append(calls, [CallRecord(FALSE) EXCEPT !.indices = indices'])
    /\ tmp' = [kind |-> "points", vol |-> vol', by |-> Len(calls')]
    /\ pc' = "restore"
    /\ UNCHANGED <<vweight, M, fixval, indices_bak, indexes, diffvolume,
                   i, ret, entry, ncalls, ffdVars>>

\* line 89: the call after the loop; its points are kept in tmp
FinalCorrect ==
    /\ pc = "loop"
    /\ i = 3
    /\ vol' = Corrector(indices, fixval, vol)
    /\ calls' = Append(calls, CallRecord(FALSE))
    /\ tmp' = [kind |-> "points", vol |-> vol', by |-> Len(calls')]
    /\ pc' = "restore"
    /\ UNCHANGED <<vweight, indices, M, fixval, indices_bak, indexes, diffvolume,
                   i, ret, entry, ncalls, ffdVars>>

\* line 89: the call after the loop raises
FinalCorrectRaises ==
    /\ pc = "loop"
    /\ i = 3
    /\ calls' = Append(calls, CallRecord(TRUE))
    /\ pc' = "raised"
    /\ UNCHANGED <<vweight, indices, M, fixval, vol, indices_bak, indexes,
                   diffvolume, i, tmp, ret, entry, ncalls, ffdVars>>

\* mutant of Return: line 90 is missing
ReturnNoRestore ==
    /\ pc = "restore"
    /\ ret' = tmp
    /\ pc' = "returned"
    /\ UNCHANGED <<vweight, indices, M, fixval, vol, indices_bak, indexes, diffvolume,
                   i, tmp, entry, calls, ncalls, ffdVars>>

\* lines 90-91
Return ==
    /\ pc = "restore"
    /\ indices' = indices_bak
    /\ ret' = tmp
    /\ pc' = "returned"
    /\ UNCHANGED <<vweight, M, fixval, vol, indices_bak, indexes, diffvolume, i,
                   tmp, entry, calls, ncalls, ffdVars>>

Next ==
    \/ Enter
    \/ PassSetup
    \/ PassCorrect
    \/ PassCorrectRaises
    \/ FinalCorrect
    \/ FinalCorrectRaises
    \/ Return

Spec == Init /\ [][Next]_vars

\* -------------------------------------------------------------------- FFD

VZero == <<Zero, Zero, Zero>>

VAdd(u, v) == <<RAdd(u[1], v[1]), RAdd(u[2], v[2]), RAdd(u[3], v[3])>>

VSub(u, v) == <<RSub(u[1], v[1]), RSub(u[2], v[2]), RSub(u[3], v[3])>>

\* 3 x 3 matrices are sequences of rows
Dot(u, v) == RAdd(RAdd(RMul(u[1], v[1]), RMul(u[2], v[2])), RMul(u[3], v[3]))

MatVec(A, v) == <<Dot(A[1], v), Dot(A[2], v), Dot(A[3], v)>>

Column(B, c) == <<B[1][c], B[2][c], B[3][c]>>

RowTimes(u, B) == <<Dot(u, Column(B, 1)), Dot(u, Column(B, 2)), Dot(u, Column(B, 3))>>

MatMul(A, B) == <<RowTimes(A[1], B), RowTimes(A[2], B), RowTimes(A[3], B)>>

\* the matrix whose columns are c1, c2, c3
Columns(c1, c2, c3) ==
    <<<<c1[1], c2[1], c3[1]>>, <<c1[2], c2[2], c3[2]>>, <<c1[3], c2[3], c3[3]>>>>

Minor2(A, r1, r2, c1, c2) == RSub(RMul(A[r1][c1], A[r2][c2]), RMul(A[r1][c2], A[r2][c1]))

Det(A) ==
    RAdd(RSub(RMul(A[1][1], Minor2(A, 2, 3, 2, 3)),
              RMul(A[1][2], Minor2(A, 2, 3, 1, 3))),
         RMul(A[1][3], Minor2(A, 2, 3, 1, 2)))

\* the cofactor of entry (r, c)
Cofactor(A, r, c) ==
    LET rs == Asc((1..3) \ {r})
        cs == Asc((1..3) \ {c})
        m  == Minor2(A, rs[1], rs[2], cs[1], cs[2])
    IN  IF (r + c) % 2 = 0 THEN m ELSE RNeg(m)

InverseRow(A, a, d) ==
    <<RDiv(Cofactor(A, 1, a), d), RDiv(Cofactor(A, 2, a), d), RDiv(Cofactor(A, 3, a), d)>>

\* the adjugate over the determinant
Inverse(A) ==
    LET d == Det(A)
    IN  <<InverseRow(A, 1, d), InverseRow(A, 2, d), InverseRow(A, 3, d)>>

\* pygem.affine_trans.affine_points_fit: the affine map x |-> A x + b that takes
\* the four points of `from` to the four points of `to`; an error when the four
\* points of `from` are affinely dependent
AffinePointsFit(from, to) ==
    LET Fm == Columns(VSub(from[1], from[4]), VSub(from[2], from[4]), VSub(from[3], from[4]))
        Tm == Columns(VSub(to[1], to[4]), VSub(to[2], to[4]), VSub(to[3], to[4]))
    IN  IF Det(Fm) = Zero THEN [ok |-> FALSE]
        ELSE LET A == MatMul(Tm, Inverse(Fm))
             IN  [ok |-> TRUE, A |-> A, b |-> VSub(to[4], MatVec(A, from[4]))]

\* transformation(single_point)
ApplyFit(T, x) == VAdd(MatVec(T.A, x), T.b)

\* lines 84-95: _transform_points
RECURSIVE TransformPoints(_, _)
TransformPoints(pts, T) ==
    IF pts = <<>> THEN <<>>
    ELSE <<ApplyFit(T, Head(pts))>> \o TransformPoints(Tail(pts), T)

\* original_points - translation, original_points + translation, shift + reference
RECURSIVE AddToEach(_, _)
AddToEach(pts, v) ==
    IF pts = <<>> THEN <<>> ELSE <<VAdd(Head(pts), v)>> \o AddToEach(Tail(pts), v)

RECURSIVE AddPointwise(_, _)
AddPointwise(ps, qs) ==
    IF ps = <<>> THEN <<>>
    ELSE <<VAdd(Head(ps), Head(qs))>> \o AddPointwise(Tail(ps), Tail(qs))

\* line 32
ReferenceFrame == <<<<One, Zero, Zero>>, <<Zero, One, Zero>>, <<Zero, Zero, One>>, VZero>>

\* lines 26-31
FisicalFrame(prm) ==
    <<VSub(prm.position_vertex_1, prm.origin_box),
      VSub(prm.position_vertex_2, prm.origin_box),
      VSub(prm.position_vertex_3, prm.origin_box),
      VZero>>

RECURSIVE Factorial(_)
Factorial(n) == IF n = 0 THEN 1 ELSE n * Factorial(n - 1)

\* scipy.special.binom on integers 0 <= k <= n
Binom(n, k) == Factorial(n) \div (Factorial(k) * Factorial(n - k))

\* lines 48-50 (and 53-55, 58-60) for one point: basis function a of `dim`
\* control points at the reference coordinate t
BernsteinAt(dim, a, t) ==
    RMul(R(Binom(dim - 1, a)), RMul(RPow(RSub(One, t), dim - 1 - a), RPow(t, a)))

\* lines 47-50 for one point: BernsteinAt for a = 0 .. n-1, as a sequence, so
\* that basis function a is element a + 1
RECURSIVE BernsteinUpTo(_, _, _)
BernsteinUpTo(dim, n, t) ==
    IF n = 0 THEN <<>> ELSE Append(BernsteinUpTo(dim, n - 1, t), BernsteinAt(dim, n - 1, t))

Bernstein(dim, t) == BernsteinUpTo(dim, dim, t)

\* the index triples of an array of the given shape
IndicesOf(shape) ==
    {<<a, b, c>> : a \in 0..(shape[1] - 1), b \in 0..(shape[2] - 1), c \in 0..(shape[3] - 1)}

\* lines 62-71 for one point and one of array_mu_x, array_mu_y, array_mu_z; the
\* loop bounds are the shape of array_mu_x
ShiftComponent(mu, shape, bx, by, bz) ==
    RSum([a \in 0..(shape[1] - 1) |->
        RSum([b \in 0..(shape[2] - 1) |->
            RSum([c \in 0..(shape[3] - 1) |->
                RMul(RMul(bx[a + 1], RMul(by[b + 1], bz[c + 1])), mu.val[<<a, b, c>>])],
                shape[3])],
            shape[2])],
        shape[1])

\* lines 38-71 for one point with reference coordinates r
RawShift(prm, r) ==
    LET shape == prm.array_mu_x.shape
        bx == Bernstein(shape[1], r[1])
        by == Bernstein(shape[2], r[2])
        bz == Bernstein(shape[3], r[3])
    IN  <<ShiftComponent(prm.array_mu_x, shape, bx, by, bz),
          ShiftComponent(prm.array_mu_y, shape, bx, by, bz),
          ShiftComponent(prm.array_mu_z, shape, bx, by, bz)>>

\* mutant of OutsideLattice: the comparisons are not strict
OutsideOrOnBoundary(r) ==
    \E a \in 1..3 : ~RLt(Zero, r[a]) \/ ~RLt(r[a], One)

\* lines 75-77
OutsideLattice(r) ==
    \/ RLt(r[1], Zero) \/ RLt(r[2], Zero) \/ RLt(r[3], Zero)
    \/ RLt(One, r[1]) \/ RLt(One, r[2]) \/ RLt(One, r[3])

\* lines 74-78 for one point
MaskedShift(prm, r) == IF OutsideLattice(r) THEN VZero ELSE RawShift(prm, r)

\* lines 74-78
RECURSIVE MaskedShifts(_, _)
MaskedShifts(prm, refs) ==
    IF refs = <<>> THEN <<>>
    ELSE <<MaskedShift(prm, Head(refs))>> \o MaskedShifts(prm, Tail(refs))

\* mutant of Deformed: the translation is not added back
DeformedNoTranslation(refs, shifts, inverse_transformation, translation) ==
    TransformPoints(AddPointwise(shifts, refs), inverse_transformation)

\* lines 80-81
Deformed(refs, shifts, inverse_transformation, translation) ==
    AddToEach(TransformPoints(AddPointwise(shifts, refs), inverse_transformation), translation)

\* lines 66-68: an index that array_mu_x has and array_mu_y or array_mu_z lacks
\* raises IndexError
IndexErrorRaised(prm) ==
    \E idx \in IndicesOf(prm.array_mu_x.shape) :
        idx \notin DOMAIN prm.array_mu_y.val \/ idx \notin DOMAIN prm.array_mu_z.val

\* line 44
ReferencePoints(pts, translation, transformation) ==
    TransformPoints(AddToEach(pts, <<RNeg(translation[1]), RNeg(translation[2]),
                                     RNeg(translation[3])>>),
                    transformation)

\* lines 19-81: FFD.perform
perform ==
    /\ result = None
    /\ parameters # None
    /\ LET transformation == AffinePointsFit(FisicalFrame(parameters), ReferenceFrame)
           inverse_transformation == AffinePointsFit(ReferenceFrame, FisicalFrame(parameters))
       IN  IF ~transformation.ok \/ ~inverse_transformation.ok
           THEN /\ result' = [kind |-> "error", what |-> "singular matrix"]
                /\ UNCHANGED <<reference_frame_mesh_points, shift_mesh_points>>
           ELSE LET refs == ReferencePoints(original_mesh_points, parameters.origin_box,
                                            transformation)
                    shifts == MaskedShifts(parameters, refs)
                IN  /\ reference_frame_mesh_points' = refs
                    /\ IF IndexErrorRaised(parameters)
                       THEN /\ result' = [kind |-> "error", what |-> "IndexError"]
                            /\ UNCHANGED shift_mesh_points
                       ELSE /\ shift_mesh_points' = shifts
                            /\ result' = [kind |-> "points",
                                          pts |-> Deformed(refs, shifts, inverse_transformation,
                                                           parameters.origin_box)]
    /\ UNCHANGED <<parameters, original_mesh_points, vffdVars>>

\* ---- the inputs of perform

V3(a, b, c) == <<R(a), R(b), R(c)>>

\* the edges of a box (vertex minus origin)
UnitEdges == <<V3(1, 0, 0), V3(0, 1, 0), V3(0, 0, 1)>>

StretchedEdges == <<V3(2, 0, 0), V3(0, 1, 0), V3(0, 0, 1)>>

RotatedEdges == <<V3(1, 1, 0), V3(-1, 1, 0), V3(0, 0, 2)>>

\* vertices 1 and 2 in line with the origin
FlatEdges == <<V3(1, 0, 0), V3(2, 0, 0), V3(0, 0, 1)>>

\* boxes, <<origin, edges>>
BoxChoices ==
    {<<V3(0, 0, 0), UnitEdges>>,
     <<V3(1, 0, -1), UnitEdges>>,
     <<V3(0, 0, 0), StretchedEdges>>,
     <<V3(1, 0, -1), RotatedEdges>>,
     <<V3(0, 0, 0), FlatEdges>>}

\* mesh points
PointChoices ==
    {<<Rat(1, 2), Rat(1, 2), Rat(1, 2)>>,
     V3(1, 1, 1),
     <<Rat(3, 2), Rat(1, 2), Rat(-1, 2)>>}

PointClouds == UNION {[1..n -> PointChoices] : n \in 0..MaxPts}

GridShapes == {<<a, b, c>> : a \in 1..MaxDim, b \in 1..MaxDim, c \in 1..MaxDim}

\* the shapes one step away from g on one axis, and g itself
ShapesNear(g) ==
    {g} \cup {s \in {[g EXCEPT ![a] = g[a] + e] : a \in 1..3, e \in {-1, 1}} :
                \A a \in 1..3 : s[a] >= 1}

\* the displacement of control point idx along `axis` (1, 2, 3): nothing moves;
\* only the last control point moves; every control point moves
MuEntry(kind, axis, idx, shape) ==
    CASE kind = "zero" -> Zero
      [] kind = "corner" ->
            IF \A a \in 1..3 : idx[a] = shape[a] - 1 THEN Rat(axis, 4) ELSE Zero
      [] kind = "ramp" -> Rat(idx[1] + 2 * idx[2] + 3 * idx[3] + axis, 4)

MuKinds == {"zero", "corner", "ramp"}

MuArray(kind, axis, shape) ==
    [shape |-> shape, val |-> [idx \in IndicesOf(shape) |-> MuEntry(kind, axis, idx, shape)]]

Parameters(origin, edges, grid, sx, sy, sz, kind) ==
    [origin_box |-> origin,
     position_vertex_1 |-> VAdd(origin, edges[1]),
     position_vertex_2 |-> VAdd(origin, edges[2]),
     position_vertex_3 |-> VAdd(origin, edges[3]),
     n_control_points |-> grid,
     array_mu_x |-> MuArray(kind, 1, sx),
     array_mu_y |-> MuArray(kind, 2, sy),
     array_mu_z |-> MuArray(kind, 3, sz)]

\* VFFD.__init__ has run and __call__ has not
InitVFFDIdle ==
    /\ vweight = DefaultVweight
    /\ indices = <<>>
    /\ M = [kind |-> "caller", n |-> 0]
    /\ fixval = Zero
    /\ vol = One
    /\ pc = "idle"
    /\ indices_bak = <<>>
    /\ indexes = <<>>
    /\ diffvolume = Zero
    /\ i = 0
    /\ tmp = None
    /\ ret = None
    /\ entry = None
    /\ calls = <<>>
    /\ ncalls = 0

\* FFD.__init__: parameters whose arrays have the shape of the control grid,
\* with any box, mesh and displacements, or parameters whose arrays differ in
\* shape from the control grid, with the unit box and one mesh point
InitFFD ==
    /\ reference_frame_mesh_points = <<>>
    /\ shift_mesh_points = <<>>
    /\ result = None
    /\ \/ /\ original_mesh_points \in PointClouds
          /\ \E box \in BoxChoices, g \in GridShapes, kind \in MuKinds :
                parameters = Parameters(box[1], box[2], g, g, g, g, kind)
       \/ /\ original_mesh_points = <<V3(1, 1, 1)>>
          /\ \E g \in GridShapes :
                \E sx \in ShapesNear(g), sy \in ShapesNear(g), sz \in ShapesNear(g) :
                    parameters = Parameters(V3(0, 0, 0), UnitEdges, g, sx, sy, sz, "ramp")

InitPerform == InitFFD /\ InitVFFDIdle

NextPerform == perform

SpecFFD == InitPerform /\ [][NextPerform]_vars

\* ------------------------------------------------------- claims about VFFD

\* the members of s that are congruent to r modulo 3, in the order of s
RECURSIVE OfResidue(_, _)
OfResidue(s, r) ==
    IF s = <<>> THEN <<>>
    ELSE (IF Head(s) % 3 = r THEN <<Head(s)>> ELSE <<>>) \o OfResidue(Tail(s), r)

Count(s, x) == Cardinality({k \in DOMAIN s : s[k] = x})

Elems(s) == {s[k] : k \in DOMAIN s}

Sum3(w) == RAdd(RAdd(w[1], w[2]), w[3])

NonNegative(a) == IsFinite(a) /\ a[1] >= 0

\* the deficit at the time __call__ was entered
EntryDeficit == RSub(entry.fixval, entry.vol)

\* the caller's weights are numbers and not all zero
WeightsUsable(w) ==
    /\ \A k \in 1..3 : IsFinite(w[k])
    /\ \E k \in 1..3 : w[k] # Zero

\* every axis with a non-zero weight has an index to move
EveryWeightedAxisControlled ==
    \A r \in 0..2 : entry.vweight[r + 1] # Zero => OfResidue(entry.indices, r) # <<>>

\* C1 as stated: for any controlled indices and any axis weights, the points
\* __call__ returns have the volume that fixval held when it was called.
C1_AnyIndicesAnyWeights == pc = "returned" => ret.vol = entry.fixval

\* C1, amended: when the axis weights are not all zero and every axis with a
\* non-zero weight has at least one controlled index, the points __call__
\* returns have the volume that fixval held when it was called.
C1_VolumeReached ==
    (pc = "returned" /\ WeightsUsable(entry.vweight) /\ EveryWeightedAxisControlled)
        => ret.vol = entry.fixval

C1_Witness ==
    /\ pc = "returned"
    /\ \A k \in 1..3 : IsFinite(entry.vweight[k]) /\ entry.vweight[k] # Zero
    /\ EveryWeightedAxisControlled
    /\ entry.fixval # entry.vol
    /\ \A k \in 1..3 : calls[k].fixval # calls[k].volBefore
    /\ ret.vol = entry.fixval

\* C2 as stated: the fourth invocation of the corrector runs with the indices
\* already restored to the caller's list, and its points are what is returned.
C2_FinalCallWithRestoredIndices ==
    pc \in {"restore", "returned"} =>
        /\ Len(calls) = 4
        /\ calls[4].indices = entry.indices
        /\ tmp.by = 4

\* C2, amended: the fourth invocation of the corrector runs with the indices
\* still restricted to the z group (the restore of line 90 comes after it), and
\* its points are what is returned.
C2_FinalCallWithLastGroup ==
    /\ pc \in {"restore", "returned"} =>
        /\ Len(calls) = 4
        /\ calls[4].indices = OfResidue(entry.indices, 2)
        /\ tmp.kind = "points" /\ tmp.by = 4
    /\ pc = "restore" => indices = OfResidue(entry.indices, 2)
    /\ pc = "returned" => ret = tmp

C2_Witness ==
    /\ pc = "returned"
    /\ ret.by = 4
    /\ calls[4].indices # <<>>
    /\ calls[4].indices # entry.indices
    /\ indices = entry.indices

\* C3: when __call__ returns, indices is the list it was called with, element
\* for element, on every successive call; M and fixval are left as the last
\* pass set them: the identity of the z group's size, and that pass's target.
C3_IndicesRestored ==
    pc = "returned" =>
        /\ indices = entry.indices
        /\ M = Eye(Len(OfResidue(entry.indices, 2)))
        /\ fixval = RAdd(calls[3].volBefore, RMul(vweight[3], EntryDeficit))

C3_Witness ==
    /\ pc = "returned"
    /\ ncalls = 2
    /\ indices # calls[4].indices
    /\ Len(indices) >= 2 /\ indices[1] > indices[2]
    /\ M.kind = "eye" /\ M.n # Len(indices)
    /\ fixval # entry.fixval

\* C7: diffvolume is fixval minus the volume at entry, set once; the target of
\* pass k is the volume at the start of that pass plus vweight[k] times that
\* deficit, not the deficit left by the earlier passes.
C7_TargetsUseEntryDeficit ==
    /\ pc # "idle" => diffvolume = EntryDeficit
    /\ pc = "correct" => fixval = RAdd(vol, RMul(vweight[i + 1], EntryDeficit))
    /\ \A k \in 1..Len(calls) :
          k <= 3 => calls[k].fixval = RAdd(calls[k].volBefore, RMul(vweight[k], EntryDeficit))

C7_Witness ==
    /\ Len(calls) >= 3
    /\ calls[2].volBefore # entry.vol
    /\ calls[3].volBefore # calls[2].volBefore
    /\ vweight[3] # Zero
    /\ RSub(entry.fixval, calls[3].volBefore) # EntryDeficit

\* C8: the passes run in the order x, y, z; pass k works on the caller's
\* indices congruent to k modulo 3, in the caller's order; the three groups
\* are pairwise disjoint and hold every index of the caller exactly once.
C8_GroupsPartitionInOrder ==
    /\ \A k \in 1..Len(calls) :
          k <= 3 => /\ calls[k].axis = k - 1
                    /\ calls[k].indices = OfResidue(entry.indices, k - 1)
    /\ pc # "idle" =>
          /\ Len(indexes) = 3
          /\ \A a, b \in 1..3 : a # b => Elems(indexes[a]) \cap Elems(indexes[b]) = {}
          /\ \A x \in Elems(entry.indices) \cup UNION {Elems(indexes[a]) : a \in 1..3} :
                Count(indexes[1], x) + Count(indexes[2], x) + Count(indexes[3], x)
                    = Count(entry.indices, x)
          /\ \A x \in Elems(entry.indices) : Count(entry.indices, x) = 1

C8_Witness ==
    /\ Len(calls) >= 3
    /\ Len(calls[1].indices) = 2
    /\ calls[1].indices[1] > calls[1].indices[2]
    /\ calls[2].indices # <<>>
    /\ calls[3].indices # <<>>

\* C9 as stated: after line 75 the weights are non-negative and sum to 1,
\* whatever the caller set.
C9_NormalizedForAnyWeights ==
    pc # "idle" => /\ \A k \in 1..3 : NonNegative(vweight[k])
                   /\ Sum3(vweight) = One

\* C9, amended: for weights that are not all zero, after line 75 the weights
\* are non-negative and sum to 1, the three shares vweight[k] * diffvolume add
\* up to diffvolume, and a later call's normalization leaves them as they are.
C9_NormalizedWhenNotAllZero ==
    (pc # "idle" /\ WeightsUsable(entry.vweight)) =>
        /\ \A k \in 1..3 : NonNegative(vweight[k])
        /\ Sum3(vweight) = One
        /\ Sum3([k \in 1..3 |-> RMul(vweight[k], diffvolume)]) = diffvolume
        /\ ncalls >= 2 => vweight = entry.vweight

C9_Witness ==
    /\ ncalls = 2
    /\ pc = "loop"
    /\ vweight = entry.vweight
    /\ \E k \in 1..3 : vweight[k] \notin {Zero, One}
    /\ diffvolume # Zero

\* C10: when the corrector raises, in a pass or in the call after the loop,
\* __call__ returns nothing and restores nothing: indices is the group that was
\* active, M the identity of that group's size, fixval that pass's target.
C10_NoCleanupOnError ==
    pc = "raised" =>
        LET k == IF Len(calls) > 3 THEN 3 ELSE Len(calls)
            g == OfResidue(entry.indices, k - 1)
        IN  /\ ret = None /\ tmp = None
            /\ calls[Len(calls)].raised
            /\ indices = g
            /\ M = Eye(Len(g))
            /\ fixval = RAdd(calls[k].volBefore, RMul(vweight[k], EntryDeficit))

C10_Witness ==
    /\ pc = "raised"
    /\ Len(calls) = 2
    /\ indices # entry.indices
    /\ indices # <<>>
    /\ M # entry.M
    /\ fixval # entry.fixval

\* ------------------------------------------------------- claims about FFD

Performed == result # None

\* every displacement weight is zero
AllZero(mu) == \A idx \in DOMAIN mu.val : mu.val[idx] = Zero

\* the three displacement arrays have the shape of the control grid
ShapesAgree ==
    /\ parameters.array_mu_x.shape = parameters.n_control_points
    /\ parameters.array_mu_y.shape = parameters.n_control_points
    /\ parameters.array_mu_z.shape = parameters.n_control_points

\* the box vertices and the origin are affinely independent
NonDegenerateBox == Det(FisicalFrame(parameters)) # Zero

\* a reference coordinate below 0 or above 1 on some axis
OutsideUnitCube(r) == \E a \in 1..3 : r[a][1] < 0 \/ r[a][1] > r[a][2]

\* inside the closed unit cube, with a coordinate that is exactly 0 or 1
OnUnitCubeBoundary(r) ==
    /\ ~OutsideUnitCube(r)
    /\ \E a \in 1..3 : r[a] = Zero \/ r[a] = One

\* C4: a point with a reference coordinate below 0 or above 1 on some axis gets
\* a zero shift and comes back as it went in, whatever the displacements; a point
\* whose reference coordinates are all in [0, 1], the ends included, keeps the
\* shift the Bernstein sum gives it.
C4_ContainmentCutoff ==
    result.kind = "points" =>
        \A p \in 1..Len(original_mesh_points) :
            IF OutsideUnitCube(reference_frame_mesh_points[p])
            THEN /\ shift_mesh_points[p] = VZero
                 /\ result.pts[p] = original_mesh_points[p]
            ELSE shift_mesh_points[p] = RawShift(parameters, reference_frame_mesh_points[p])

C4_Witness ==
    /\ result.kind = "points"
    /\ \A a \in 1..3 : parameters.array_mu_x.shape[a] > 1
    /\ \E p, q \in 1..Len(original_mesh_points) :
          /\ OutsideUnitCube(reference_frame_mesh_points[p])
          /\ RawShift(parameters, reference_frame_mesh_points[p]) # VZero
          /\ result.pts[p] = original_mesh_points[p]
          /\ OnUnitCubeBoundary(reference_frame_mesh_points[q])
          /\ shift_mesh_points[q] # VZero
          /\ result.pts[q] # original_mesh_points[q]

\* C5: with every displacement weight zero, a box that is not degenerate and
\* arrays of the control grid's shape (a grid size of 1 included), perform
\* returns the input points: as many, in the same order, with the same
\* coordinates, inside the box or outside it.
C5_IdentityDeformation ==
    ( /\ Performed
      /\ AllZero(parameters.array_mu_x)
      /\ AllZero(parameters.array_mu_y)
      /\ AllZero(parameters.array_mu_z)
      /\ ShapesAgree
      /\ NonDegenerateBox )
    => /\ result.kind = "points"
       /\ Len(result.pts) = Len(original_mesh_points)
       /\ \A p \in 1..Len(original_mesh_points) : result.pts[p] = original_mesh_points[p]

C5_Witness ==
    /\ result.kind = "points"
    /\ AllZero(parameters.array_mu_x)
    /\ AllZero(parameters.array_mu_y)
    /\ AllZero(parameters.array_mu_z)
    /\ parameters.origin_box # VZero
    /\ \E a, b \in 1..3 : parameters.n_control_points[a] = 1 /\ parameters.n_control_points[b] > 1
    /\ Len(original_mesh_points) = 2
    /\ original_mesh_points[1] # original_mesh_points[2]
    /\ OutsideUnitCube(reference_frame_mesh_points[1])
    /\ ~OutsideUnitCube(reference_frame_mesh_points[2])
    /\ reference_frame_mesh_points[2] # original_mesh_points[2]
    /\ result.pts = original_mesh_points

\* C6: whenever the shape of one of array_mu_x, array_mu_y, array_mu_z differs
\* from the control grid's shape, perform ends in an error and returns no points.
C6_ShapeMismatchIsError ==
    (Performed /\ ~ShapesAgree) => result.kind = "error"

====
